---- MODULE Spec2Model ----
(***************************************************************************)
(* gator: the feed aggregation engine (handlerAgg, scrapeFeeds), its       *)
(* service supervisor (handlerAggService) and the post table.              *)
(*                                                                         *)
(* The database is the only state that outlives a process.  The agg        *)
(* process holds the ticker, the 5-slot channel feedChan and its           *)
(* scrapeFeeds goroutines; goroutines are anonymous, so they are kept as a *)
(* bag of local states.  Each database call and the network fetch is one   *)
(* step of a goroutine, so calls of different goroutines interleave.       *)
(***************************************************************************)
EXTENDS Integers, Sequences, FiniteSets, Bags, TLC

\* ------------------------------------------------------------------ bounds
\* Feeds that may be registered (identities 1..MaxFeeds).
MaxFeeds == 2
\* Feeds that may be registered in SpecAgg and SpecSup, which explore many
\* goroutines and many processes.
MaxFeedsAgg == 1
\* scrapeFeeds goroutines launched in one behaviour of Spec and of SpecSup.
MaxLaunchIngest == 2
MaxLaunchSup == 2
\* Process table: agg processes that can exist at the same time.
MaxProcs == 2
\* Posts of the library that the store may hold when a user command runs.
MaxStore == 3
\* The bits the model gives an int32 (the program's has 32).
Int32Bits == 4
\* The seconds past the minute of the instants TestParsePublished formats.
MaxSecond == 1

\* ------------------------------------------------------- program constants
\* feedChan := make(chan struct{}, 5)
feedChanCap == 5
\* scrapeFeeds goroutines launched in one behaviour of SpecAgg: those that
\* fill feedChan and the one whose send must wait.
MaxLaunch == feedChanCap + 1
\* sigs := make(chan os.Signal, 1)
sigsCap == 1
\* the channel of a time.Ticker holds one tick; further ticks are dropped
tickerCap == 1

NULL == 0
NoFeed == 0
NoDoc == 0

Feeds == 1..MaxFeeds
Procs == 1..MaxProcs
NoProc == 0

\* ------------------------------------------------------------------ strings
\* Text is a sequence of characters, so that trimming is computed.
IsSpace(c) == c \in {" ", "\t", "\n"}

RECURSIVE TrimLeft(_)
TrimLeft(s) ==
    IF s # <<>> /\ IsSpace(Head(s)) THEN TrimLeft(Tail(s)) ELSE s

RECURSIVE TrimRight(_)
TrimRight(s) ==
    IF s # <<>> /\ IsSpace(s[Len(s)]) THEN TrimRight(SubSeq(s, 1, Len(s) - 1)) ELSE s

\* strings.TrimSpace
TrimSpace(s) == TrimRight(TrimLeft(s))

\* ------------------------------------------------------------------- text
\* The characters of the model in the order of their bytes; Go compares
\* strings byte by byte.
ByteOrder ==
    << "\t", "\n", " ", "%", "+", "-", "0", "1", "2", "3", "4", "5", "6", "7", "8", "9", "A", "B", "C", "D", "E", "F", "G", "H", "I", "J", "K", "L", "M", "N", "O", "P", "Q", "R", "S", "T", "U", "V", "W", "X", "Y", "Z", "_", "a", "b", "c", "d", "e", "f", "g", "h", "i", "j", "k", "l", "m", "n", "o", "p", "q", "r", "s", "t", "u", "v", "w", "x", "y", "z" >>

Upper == <<"A", "B", "C", "D", "E", "F", "G", "H", "I", "J", "K", "L", "M", "N", "O", "P", "Q", "R", "S", "T", "U", "V", "W", "X", "Y", "Z">>
Lower == <<"a", "b", "c", "d", "e", "f", "g", "h", "i", "j", "k", "l", "m", "n", "o", "p", "q", "r", "s", "t", "u", "v", "w", "x", "y", "z">>

\* strings.ToLower
ToLower(s) ==
    LET ToLowerChar(c) ==
            IF \E i \in 1..Len(Upper) : Upper[i] = c
            THEN Lower[CHOOSE i \in 1..Len(Upper) : Upper[i] = c]
            ELSE c
    IN  [i \in 1..Len(s) |-> ToLowerChar(s[i])]

\* a < b on strings
RECURSIVE StrLess(_, _)
StrLess(a, b) ==
    LET CharCode(c) == CHOOSE i \in 1..Len(ByteOrder) : ByteOrder[i] = c
    IN  IF b = <<>> THEN FALSE
        ELSE IF a = <<>> THEN TRUE
        ELSE IF Head(a) = Head(b) THEN StrLess(Tail(a), Tail(b))
        ELSE CharCode(Head(a)) < CharCode(Head(b))

Digits == <<"0", "1", "2", "3", "4", "5", "6", "7", "8", "9">>

IsDigit(c) == \E i \in 1..Len(Digits) : Digits[i] = c

RECURSIVE DecimalValue(_, _)
DecimalValue(s, acc) ==
    LET DigitVal(c) == (CHOOSE i \in 1..Len(Digits) : Digits[i] = c) - 1
    IN  IF s = <<>> THEN acc ELSE DecimalValue(Tail(s), 10 * acc + DigitVal(Head(s)))

\* strconv.Atoi: an optional sign and decimal digits, or an error.
Atoi(s) ==
    LET signed == s # <<>> /\ Head(s) \in {"+", "-"}
        body   == IF signed THEN Tail(s) ELSE s
    IN  IF body = <<>> \/ \E i \in 1..Len(body) : ~IsDigit(body[i])
        THEN [ok |-> FALSE, val |-> 0]
        ELSE [ok |-> TRUE,
              val |-> IF signed /\ Head(s) = "-"
                      THEN 0 - DecimalValue(body, 0)
                      ELSE DecimalValue(body, 0)]

RECURSIVE Itoa(_)
\* The decimal text of an integer.
Itoa(n) ==
    IF n < 0 THEN <<"-">> \o Itoa(0 - n)
    ELSE IF n < 10 THEN << Digits[n + 1] >>
    ELSE Itoa(n \div 10) \o << Digits[(n % 10) + 1] >>

\* int32(x) of an int: the low bits, as a signed number.
Int32(x) == ((x + 2^(Int32Bits - 1)) % 2^Int32Bits) - 2^(Int32Bits - 1)

\* ------------------------------------------------------------------- time
\* A time.Time is an instant and a location.  The instant is counted in
\* seconds from 2 January 2006 00:00:00 UTC, a Monday; the model's calendar
\* is January 2006.  A location has the text of its abbreviation and its
\* offset east of UTC in seconds.
Zone(name, offset) == [name |-> name, offset |-> offset]

UTCZone == Zone(<<"UTC">>, 0)
\* America/Denver in January
MSTZone == Zone(<<"MST">>, 0 - 25200)

\* The locations of a time: UTC, a zone with an abbreviation, and
\* time.FixedZone("UTC-7", -7*3600).
Locations == { UTCZone, MSTZone, Zone(<<"UTC", "-", "7">>, 0 - 25200) }

Time(sec, zone) == [sec |-> sec, zone |-> zone]

\* time.Time{}
ZeroTime == Time(0, UTCZone)

WeekDays == << "Sun", "Mon", "Tue", "Wed", "Thu", "Fri", "Sat" >>

\* The layouts, as the chunks the time package cuts them into.
publishedLayouts ==
    LET RFC1123Z == << "Mon", ",", " ", "02", " ", "Jan", " ", "2006", " ",
                       "15", ":", "04", ":", "05", " ", "-0700" >>
        RFC1123  == << "Mon", ",", " ", "02", " ", "Jan", " ", "2006", " ",
                       "15", ":", "04", ":", "05", " ", "MST" >>
        RFC822Z  == << "02", " ", "Jan", " ", "06", " ", "15", ":", "04", " ", "-0700" >>
        RFC822   == << "02", " ", "Jan", " ", "06", " ", "15", ":", "04", " ", "MST" >>
        RFC3339  == << "2006", "-", "01", "-", "02", "T", "15", ":", "04", ":", "05",
                       "Z07:00" >>
        RubyDate == << "Mon", " ", "Jan", " ", "02", " ", "15", ":", "04", ":", "05", " ",
                       "-0700", " ", "2006" >>
    IN  << RFC1123Z, RFC1123, RFC822Z, RFC822, RFC3339, RubyDate, RFC1123Z >>

TwoDigits(n) == << Digits[(n \div 10) + 1], Digits[(n % 10) + 1] >>

\* -0700 and -07:00
OffsetText(offset, colon) ==
    LET minutes == (IF offset < 0 THEN 0 - offset ELSE offset) \div 60
    IN  << IF offset < 0 THEN "-" ELSE "+" >> \o TwoDigits(minutes \div 60)
            \o (IF colon THEN <<":">> ELSE <<>>) \o TwoDigits(minutes % 60)

\* What Format writes for one chunk of a layout, from the clock of the time
\* in its location.
Render(chunk, t) ==
    LET wall == t.sec + t.zone.offset
        day  == 2 + (wall \div 86400)
    IN  CASE chunk = "Mon"    -> << WeekDays[((day - 1) % 7) + 1] >>
          [] chunk = "Jan"    -> << "Jan" >>
          [] chunk = "01"     -> TwoDigits(1)
          [] chunk = "2006"   -> TwoDigits(20) \o TwoDigits(6)
          [] chunk = "06"     -> TwoDigits(6)
          [] chunk = "02"     -> TwoDigits(day)
          [] chunk = "15"     -> TwoDigits((wall % 86400) \div 3600)
          [] chunk = "04"     -> TwoDigits((wall % 3600) \div 60)
          [] chunk = "05"     -> TwoDigits(wall % 60)
          [] chunk = "MST"    -> IF t.zone.name # <<>>
                                 THEN t.zone.name
                                 ELSE OffsetText(t.zone.offset, FALSE)
          [] chunk = "-0700"  -> OffsetText(t.zone.offset, FALSE)
          [] chunk = "Z07:00" -> IF t.zone.offset = 0
                                 THEN << "Z" >>
                                 ELSE OffsetText(t.zone.offset, TRUE)
          [] OTHER            -> << chunk >>

RECURSIVE Format(_, _)
\* t.Format(layout)
Format(t, layout) ==
    IF layout = <<>> THEN <<>>
    ELSE Render(Head(layout), t) \o Format(t, Tail(layout))

\* What Parse has read so far; ok is false once the value did not match.
Fields(ok) == [ok |-> ok, day |-> 1, hour |-> 0, minute |-> 0, second |-> 0,
               offset |-> 0, name |-> <<>>]

\* A signed offset of the form -0700 (colon = 0) or -07:00 (colon = 1) at the
\* head of s: its seconds, or no offset.
SignedOffset(s, colon) ==
    IF /\ Len(s) >= 5 + colon
       /\ s[1] \in {"+", "-"}
       /\ IsDigit(s[2]) /\ IsDigit(s[3])
       /\ (colon = 1 => s[4] = ":")
       /\ IsDigit(s[4 + colon]) /\ IsDigit(s[5 + colon])
    THEN LET seconds == DecimalValue(SubSeq(s, 2, 3), 0) * 3600
                            + DecimalValue(SubSeq(s, 4 + colon, 5 + colon), 0) * 60
         IN  [ok |-> TRUE, offset |-> IF s[1] = "-" THEN 0 - seconds ELSE seconds]
    ELSE [ok |-> FALSE, offset |-> 0]

RECURSIVE ParseChunks(_, _, _, _)
\* Parse reads the value chunk by chunk of the layout.  The abbreviation of
\* a zone has the offset it has in the local zone, UTC is UTC, and any other
\* abbreviation gets the offset zero.  Text left over is an error.
ParseChunks(layout, s, f, local) ==
    IF layout = <<>> THEN (IF s = <<>> THEN f ELSE Fields(FALSE))
    ELSE
        LET chunk == Head(layout)
            rest  == Tail(layout)
            num   == IF Len(s) >= 2 /\ IsDigit(s[1]) /\ IsDigit(s[2])
                     THEN DecimalValue(SubSeq(s, 1, 2), 0)
                     ELSE 0 - 1
            Drop(n) == SubSeq(s, n + 1, Len(s))
        IN  CASE chunk \in {"02", "15", "04", "05"} ->
                    IF /\ num >= 0
                       /\ (chunk = "02" => num \in 1..31)
                       /\ (chunk = "15" => num < 24)
                       /\ (chunk \in {"04", "05"} => num < 60)
                    THEN ParseChunks(rest, Drop(2),
                            CASE chunk = "02" -> [f EXCEPT !.day = num]
                              [] chunk = "15" -> [f EXCEPT !.hour = num]
                              [] chunk = "04" -> [f EXCEPT !.minute = num]
                              [] chunk = "05" -> [f EXCEPT !.second = num],
                            local)
                    ELSE Fields(FALSE)
              [] chunk \in {"01", "06", "2006"} ->
                    LET lit == Render(chunk, ZeroTime)
                    IN  IF Len(s) >= Len(lit) /\ SubSeq(s, 1, Len(lit)) = lit
                        THEN ParseChunks(rest, Drop(Len(lit)), f, local)
                        ELSE Fields(FALSE)
              [] chunk = "Mon" ->
                    IF s # <<>> /\ \E i \in 1..Len(WeekDays) : WeekDays[i] = Head(s)
                    THEN ParseChunks(rest, Tail(s), f, local)
                    ELSE Fields(FALSE)
              [] chunk = "MST" ->
                    IF s # <<>> /\ Head(s) = "UTC"
                    THEN ParseChunks(rest, Tail(s), [f EXCEPT !.offset = 0, !.name = <<"UTC">>], local)
                    ELSE IF s # <<>> /\ Head(s) \in {"MST", "PST", "GMT", "EST"}
                    THEN ParseChunks(rest, Tail(s),
                            [f EXCEPT !.offset = IF local.name = << Head(s) >>
                                                 THEN local.offset ELSE 0,
                                      !.name = << Head(s) >>],
                            local)
                    ELSE Fields(FALSE)
              [] chunk = "-0700" ->
                    LET z == SignedOffset(s, 0)
                    IN  IF z.ok
                        THEN ParseChunks(rest, Drop(5), [f EXCEPT !.offset = z.offset], local)
                        ELSE Fields(FALSE)
              [] chunk = "Z07:00" ->
                    LET z == SignedOffset(s, 1)
                    IN  IF s # <<>> /\ Head(s) = "Z"
                        THEN ParseChunks(rest, Tail(s), [f EXCEPT !.offset = 0], local)
                        ELSE IF z.ok
                        THEN ParseChunks(rest, Drop(6), [f EXCEPT !.offset = z.offset], local)
                        ELSE Fields(FALSE)
              [] OTHER ->
                    IF s # <<>> /\ Head(s) = chunk
                    THEN ParseChunks(rest, Tail(s), f, local)
                    ELSE Fields(FALSE)

\* time.Parse(layout, value)
TimeParse(layout, s, local) ==
    LET f == ParseChunks(layout, s, Fields(TRUE), local)
    IN  [ err  |-> ~f.ok,
          time |-> IF f.ok
                   THEN Time((f.day - 2) * 86400 + f.hour * 3600 + f.minute * 60
                                + f.second - f.offset,
                             Zone(f.name, f.offset))
                   ELSE ZeroTime ]

RECURSIVE FirstLayout(_, _, _)
\* The loop over publishedLayouts: the first layout that parses.
FirstLayout(layouts, trimmed, local) ==
    IF layouts = <<>> THEN [time |-> ZeroTime, found |-> FALSE]
    ELSE LET r == TimeParse(Head(layouts), trimmed, local)
         IN  IF ~r.err
             THEN [time |-> r.time, found |-> TRUE]
             ELSE FirstLayout(Tail(layouts), trimmed, local)

parsePublished(raw, local) ==
    LET trimmed == TrimSpace(raw)
    IN  IF trimmed = <<>>
        THEN [time |-> ZeroTime, found |-> FALSE]
        ELSE FirstLayout(publishedLayouts, trimmed, local)

\* ---------------------------------------------------------------- documents
\* RSSItem: the fields scrapeFeeds reads.
RSSItem(title, link, description, pubDate) ==
    [Title |-> title, Link |-> link, Description |-> description, PubDate |-> pubDate]

\* The feed documents the network may serve (RSSFeed.Channel.Item).
\* Document 1 has one item; documents 2 and 3 share a link up to white space
\* and differ in title; document 3 holds the same link twice.  The publish
\* dates are a date with a numeric zone, no text, white space, text that is
\* no date, and a date between white space.
Documents ==
    LET \* "Mon, 02 Jan 2006 22:04:05 +0000"
        DateRFC1123Z ==
            << "Mon", ",", " ", "0", "2", " ", "Jan", " ", "2", "0", "0", "6", " ",
               "2", "2", ":", "0", "4", ":", "0", "5", " ", "+", "0", "0", "0", "0" >>
        \* " 02 Jan 06 15:04 -0700\n"
        DatePaddedRFC822Z ==
            << " ", "0", "2", " ", "Jan", " ", "0", "6", " ", "1", "5", ":", "0", "4",
               " ", "-", "0", "7", "0", "0", "\n" >>
    IN  << << RSSItem(<<"a">>, <<"u">>, <<"d">>, DateRFC1123Z) >>,
           << RSSItem(<<"b">>, <<" ", "u">>, <<" ">>, <<>>),
              RSSItem(<<"c">>, <<"v">>, <<>>, <<" ", "\t">>) >>,
           << RSSItem(<<"c">>, <<"v">>, <<"d">>, <<"n", "o", "w">>),
              RSSItem(<<"d">>, <<"v", " ">>, <<"d">>, DatePaddedRFC822Z) >> >>

DocIds == 1..Len(Documents)

VARIABLES
    \* database
    lastFetched,    \* feeds.last_fetched_at, per registered feed (NULL = never)
    posts,          \* the posts table
    now,            \* the database clock
    \* the command line
    cmdName,        \* "agg" or "aggservice": the command the user ran
    timeArg,        \* cmd.args[0] as time.ParseDuration and NewTicker take it
    \* the agg processes: per process the position of handlerAgg (pc), the
    \* number of values in feedChan, the number of ticks buffered in ticker.C
    \* and the bag of the local states of its scrapeFeeds goroutines
    agg,
    \* the supervisor process (handlerAggService)
    supPc,          \* position of handlerAggService
    sigs,           \* the buffered channel sigs
    aggCmd,         \* aggCmd.Process of the current iteration (NoProc = nil)
    runPc,          \* position of the goroutine that runs aggCmd.Run()
    errCh,          \* the buffered channel errCh of the current iteration
    cmdCtx,         \* "live" or "done" (cancel() was called)
    \* bounds and history
    launched,       \* goroutines launched so far (bounded by launchCap)
    launchCap,      \* the bound on launched in this behaviour
    served,         \* the documents the feed servers serve in this behaviour
    selCount,       \* per feed: selections by GetNextFeedToFetch, saturating at 2
    started,        \* children started by the supervisor, saturating at 2
    \* the commands of a logged-in user (browse, search, bookmark)
    follows,        \* the feed_follows table: pairs <<user, feed>>
    bookmarks,      \* the bookmarks table: a bag of rows [UserID, PostID]
    cli             \* the running handler: its position, its locals, what it
                    \* has printed and what it has returned

vars == << lastFetched, posts, now, cmdName, timeArg, agg, supPc, sigs, aggCmd,
           runPc, errCh, cmdCtx, launched, launchCap, served, selCount,
           started, follows, bookmarks, cli >>

dbVars == << lastFetched, posts, now >>
cliVars == << follows, bookmarks, cli >>
cfgVars == << cmdName, timeArg, launchCap, served, started, cliVars >>
supVars == << supPc, sigs, aggCmd, runPc, errCh, cmdCtx >>
\* What the user commands leave alone.
engineVars == << dbVars, cmdName, timeArg, launchCap, served, started, agg,
                supVars, launched, selCount >>

Registered == DOMAIN lastFetched

\* ------------------------------------------------------------ the database
\* Mutant: nulls last; a never-fetched feed comes after every fetched one.
NextFeedsNullsLast(lf) ==
    { f \in DOMAIN lf :
        \A g \in DOMAIN lf :
            \/ lf[g] = NULL
            \/ (lf[f] # NULL /\ lf[f] <= lf[g]) }

\* GetNextFeedToFetch: the feeds ordered by last_fetched_at ascending, nulls
\* first, limit 1.  The order among equal keys is not fixed by the query.
NextFeedsToFetch(lf) ==
    { f \in DOMAIN lf :
        \A g \in DOMAIN lf :
            \/ lf[f] = NULL
            \/ (lf[g] # NULL /\ lf[f] <= lf[g]) }

\* MarkFeedFetched: last_fetched_at = NOW() for the feed.
MarkFeedFetched(lf, f, t) == [lf EXCEPT ![f] = t]

\* Mutant: a plain INSERT; the UNIQUE constraint rejects a known url with an
\* error.
CreatePostNoConflictClause(tbl, p, dbOk) ==
    IF ~dbOk \/ \E q \in tbl : q.Url = p.Url
    THEN [posts |-> tbl, err |-> TRUE]
    ELSE [posts |-> tbl \cup {p}, err |-> FALSE]

\* Mutant: ON CONFLICT (url) DO UPDATE; the row of a known url takes the
\* values of the insert.
CreatePostUpserts(tbl, p, dbOk) ==
    IF ~dbOk THEN [posts |-> tbl, err |-> TRUE]
    ELSE [posts |-> { q \in tbl : q.Url # p.Url } \cup {p}, err |-> FALSE]

\* CreatePost: INSERT ... ON CONFLICT (url) DO NOTHING.  url is UNIQUE.
\* Returns the table and whether the statement reported an error.
CreatePost(tbl, p, dbOk) ==
    IF ~dbOk THEN [posts |-> tbl, err |-> TRUE]
    ELSE IF \E q \in tbl : q.Url = p.Url THEN [posts |-> tbl, err |-> FALSE]
    ELSE [posts |-> tbl \cup {p}, err |-> FALSE]

\* --------------------------------------------------------------- scrapeFeeds
\* The local state of a scrapeFeeds goroutine.
Task(pc, feed, doc, idx) == [pc |-> pc, feed |-> feed, doc |-> doc, idx |-> idx]

NewTask == Task("select", NoFeed, NoDoc, 0)

\* scrapeFeeds has returned; the goroutine is at <-feedChan.
Released == Task("release", NoFeed, NoDoc, 0)

\* What scrapeFeeds hands to its caller: func scrapeFeeds(s *state) has no
\* results, and CreatePost is an :exec query that reports no row count.
scrapeFeedsResults == <<>>

One(t) == SetToBag({t})

\* The goroutine in local state t of process p moves to local state u.
Move(p, t, u) == agg' = [agg EXCEPT ![p].tasks = (@ (-) One(t)) (+) One(u)]

NullTime == [Time |-> 0, Valid |-> FALSE]

\* time.Local of the agg process.
Local == UTCZone

\* Mutant: the time parsePublished returned is stored as a valid time
\* whether it was found or not.
PublishedAtAlwaysValid(raw) ==
    LET r == parsePublished(raw, Local)
    IN  [Time |-> r.time.sec, Valid |-> TRUE]

\* publishedAt: a valid time when parsePublished found one, else the zero
\* sql.NullTime, which is stored as NULL.
PublishedAt(raw) ==
    LET r == parsePublished(raw, Local)
    IN  IF r.found THEN [Time |-> r.time.sec, Valid |-> TRUE] ELSE NullTime

\* publishedAt of every publish date the documents hold.
PublishedAtOf ==
    LET PubDates ==
            UNION { { Documents[d][i].PubDate : i \in DOMAIN Documents[d] } :
                        d \in DocIds }
    IN  [raw \in PubDates |-> PublishedAt(raw)]

\* postParams of an item, as built in the loop body.  uuid.New() is an
\* identity no stored post has.
PostParams(feed, item) ==
    [ ID          |-> Cardinality(posts) + 1,
      CreatedAt   |-> now,
      Title       |-> TrimSpace(item.Title),
      Url         |-> TrimSpace(item.Link),
      Description |-> [String |-> TrimSpace(item.Description),
                       Valid  |-> TrimSpace(item.Description) # <<>>],
      PublishedAt |-> PublishedAtOf[item.PubDate],
      FeedID      |-> feed ]

Bump(c) == IF c < 2 THEN c + 1 ELSE 2

\* feed, err := s.db.GetNextFeedToFetch(...); on an error (no feed is
\* registered, or the query fails) scrapeFeeds returns.
ScrapeSelect(p, t) ==
    /\ t.pc = "select"
    /\ \/ \E f \in NextFeedsToFetch(lastFetched) :
            /\ Move(p, t, Task("mark", f, NoDoc, 0))
            /\ selCount' = [selCount EXCEPT ![f] = Bump(@)]
       \/ /\ Move(p, t, Released)
          /\ UNCHANGED selCount
    /\ UNCHANGED << dbVars, cfgVars, supVars, launched >>

\* Mutant: the error of the mark is logged and the fetch is made all the same.
AfterMarkIgnoresError(t, ok) == Task("fetch", t.feed, NoDoc, 0)

\* The statement after the mark: the fetch when the mark succeeded, the
\* return when it failed.
AfterMark(t, ok) == IF ok THEN Task("fetch", t.feed, NoDoc, 0) ELSE Released

\* Mutant: the fetch is made without the write of last_fetched_at.
ScrapeMarkNoWrite(p, t) ==
    /\ t.pc = "mark"
    /\ Move(p, t, Task("fetch", t.feed, NoDoc, 0))
    /\ UNCHANGED << dbVars, cfgVars, supVars, launched, selCount >>

\* s.db.MarkFeedFetched(...): on an error scrapeFeeds returns.
ScrapeMark(p, t) ==
    /\ t.pc = "mark"
    /\ \/ /\ lastFetched' = MarkFeedFetched(lastFetched, t.feed, now + 1)
          /\ now' = now + 1
          /\ Move(p, t, AfterMark(t, TRUE))
       \/ /\ Move(p, t, AfterMark(t, FALSE))
          /\ UNCHANGED << lastFetched, now >>
    /\ UNCHANGED << posts, cfgVars, supVars, launched, selCount >>

\* fetchFeed has returned an error; the goroutine is at the log line and the
\* return that follow it.
FetchFailed == Task("failed", NoFeed, NoDoc, 0)

\* Mutant: on an error of fetchFeed the goroutine starts scrapeFeeds over.
AfterFetchErrorRetries(t) == NewTask

\* The statement after a fetchFeed that returned an error: the log line and
\* the return, with no second call.
AfterFetchError(t) == FetchFailed

\* rssFeed, err := fetchFeed(...): a document, or an error and scrapeFeeds
\* returns.  A document without items ends the loop at once.
ScrapeFetch(p, t) ==
    /\ t.pc = "fetch"
    /\ \/ \E d \in served :
            Move(p, t, IF Len(Documents[d]) = 0
                       THEN Released
                       ELSE Task("ingest", t.feed, d, 1))
       \/ Move(p, t, AfterFetchError(t))
    /\ UNCHANGED << dbVars, cfgVars, supVars, launched, selCount >>

\* Mutant: the error of CreatePost ends scrapeFeeds.
AfterCreatePostAborts(t, err) ==
    IF ~err /\ t.idx < Len(Documents[t.doc])
    THEN Task("ingest", t.feed, t.doc, t.idx + 1)
    ELSE Released

\* The statement after CreatePost: its error is logged only, and the range
\* loop goes to the next item or ends after the last one.
AfterCreatePost(t, err) ==
    IF t.idx < Len(Documents[t.doc])
    THEN Task("ingest", t.feed, t.doc, t.idx + 1)
    ELSE Released

\* One iteration of the loop over rssFeed.Channel.Item: build postParams and
\* call CreatePost; an error is logged and the loop goes on.
ScrapeIngest(p, t) ==
    /\ t.pc = "ingest"
    /\ \E dbOk \in BOOLEAN :
        LET r == CreatePost(posts, PostParams(t.feed, Documents[t.doc][t.idx]), dbOk)
        IN  /\ posts' = r.posts
            /\ Move(p, t, AfterCreatePost(t, r.err))
    /\ UNCHANGED << lastFetched, now, cfgVars, supVars, launched, selCount >>

\* Mutant: the goroutine ends without the receive from feedChan.
ScrapeReleaseLeaks(p, t) ==
    /\ t.pc \in {"release", "failed"}
    /\ agg' = [agg EXCEPT ![p].tasks = @ (-) One(t)]
    /\ UNCHANGED << dbVars, cfgVars, supVars, launched, selCount >>

\* <-feedChan: the goroutine takes a value out of the channel and ends.
ScrapeRelease(p, t) ==
    /\ t.pc \in {"release", "failed"}
    /\ agg[p].feedChan > 0
    /\ agg' = [agg EXCEPT ![p].feedChan = @ - 1, ![p].tasks = @ (-) One(t)]
    /\ UNCHANGED << dbVars, cfgVars, supVars, launched, selCount >>

\* ---------------------------------------------------------------- handlerAgg
NoProcess == [pc |-> "none", feedChan |-> 0, ticker |-> 0, tasks |-> EmptyBag]
StartedProcess == [NoProcess EXCEPT !.pc = "parse"]
ExitedProcess == [NoProcess EXCEPT !.pc = "exited"]

Running(p) == agg[p].pc \in {"parse", "acquire", "spawn", "wait"}

\* len(cmd.args) < 1, time.ParseDuration fails, or NewTicker panics on a
\* non-positive duration: the process ends with an error before the loop.
AggParse(p) ==
    /\ agg[p].pc = "parse"
    /\ agg' = [agg EXCEPT ![p] = IF timeArg = "ok"
                                 THEN [@ EXCEPT !.pc = "acquire"]
                                 ELSE ExitedProcess]
    /\ UNCHANGED << dbVars, cfgVars, supVars, launched, selCount >>

\* Mutant: the send proceeds on a full buffer once more.
CanSendOffByOne(n) == n <= feedChanCap

\* A send on feedChan can proceed while the buffer is not full.
CanSend(n) == n < feedChanCap

\* feedChan <- struct{}{}: blocks while the channel is full.
AggAcquire(p) ==
    /\ agg[p].pc = "acquire"
    /\ CanSend(agg[p].feedChan)
    /\ launched < launchCap
    /\ agg' = [agg EXCEPT ![p].feedChan = @ + 1, ![p].pc = "spawn"]
    /\ UNCHANGED << dbVars, cfgVars, supVars, launched, selCount >>

\* go func() { scrapeFeeds(s); <-feedChan }()
AggSpawn(p) ==
    /\ agg[p].pc = "spawn"
    /\ agg' = [agg EXCEPT ![p].tasks = @ (+) One(NewTask), ![p].pc = "wait"]
    /\ launched' = launched + 1
    /\ UNCHANGED << dbVars, cfgVars, supVars, selCount >>

\* Mutant: the loop goes round without a tick.
AggWaitNoTick(p) ==
    /\ agg[p].pc = "wait"
    /\ agg' = [agg EXCEPT ![p].pc = "acquire"]
    /\ UNCHANGED << dbVars, cfgVars, supVars, launched, selCount >>

\* <-ticker.C
AggWait(p) ==
    /\ agg[p].pc = "wait"
    /\ agg[p].ticker > 0
    /\ agg' = [agg EXCEPT ![p].ticker = @ - 1, ![p].pc = "acquire"]
    /\ UNCHANGED << dbVars, cfgVars, supVars, launched, selCount >>

\* The ticker fires: the tick is buffered, or dropped when one is buffered.
Tick(p) ==
    /\ agg[p].pc \in {"acquire", "spawn", "wait"}
    /\ agg[p].ticker < tickerCap
    /\ agg' = [agg EXCEPT ![p].ticker = @ + 1]
    /\ UNCHANGED << dbVars, cfgVars, supVars, launched, selCount >>

\* The process dies (a panic, the machine, a kill from outside): its
\* goroutines end where they are; the database keeps what was written.
AggCrash(p) ==
    /\ Running(p)
    /\ agg' = [agg EXCEPT ![p] = ExitedProcess]
    /\ UNCHANGED << dbVars, cfgVars, supVars, launched, selCount >>

InitDb(n) ==
    /\ \E R \in SUBSET (1..n) : lastFetched = [f \in R |-> NULL]
    /\ posts = {}
    /\ now = 0

\* No browse, search or bookmark command runs.
NoCommand ==
    /\ follows = {}
    /\ bookmarks = EmptyBag
    /\ cli = [pc |-> "none"]

InitHistory ==
    /\ launched = 0
    /\ started = 0
    /\ selCount = [f \in Feeds |-> 0]

NoSupervisor ==
    /\ supPc = "none"
    /\ sigs = <<>>
    /\ aggCmd = [Process |-> NoProc]
    /\ runPc = "none"
    /\ errCh = <<>>
    /\ cmdCtx = "live"

\* The user ran `gator agg <arg>`: one agg process.
InitAggWith(n, cap, docs) ==
    /\ InitDb(n)
    /\ InitHistory
    /\ NoSupervisor
    /\ NoCommand
    /\ cmdName = "agg"
    /\ timeArg \in {"missing", "invalid", "nonpositive", "ok"}
    /\ agg = [p \in Procs |-> IF p = 1 THEN StartedProcess ELSE NoProcess]
    /\ launchCap = cap
    /\ served = docs

Init == InitAggWith(MaxFeeds, MaxLaunchIngest, DocIds)

InitAgg == InitAggWith(MaxFeedsAgg, MaxLaunch, {1})

NextAgg ==
    \/ \E p \in Procs : AggParse(p)
    \/ \E p \in Procs : AggAcquire(p)
    \/ \E p \in Procs : AggSpawn(p)
    \/ \E p \in Procs : AggWait(p)
    \/ \E p \in Procs : Tick(p)
    \/ \E p \in Procs : AggCrash(p)
    \/ \E p \in Procs : \E t \in BagToSet(agg[p].tasks) : ScrapeSelect(p, t)
    \/ \E p \in Procs : \E t \in BagToSet(agg[p].tasks) : ScrapeMark(p, t)
    \/ \E p \in Procs : \E t \in BagToSet(agg[p].tasks) : ScrapeFetch(p, t)
    \/ \E p \in Procs : \E t \in BagToSet(agg[p].tasks) : ScrapeIngest(p, t)
    \/ \E p \in Procs : \E t \in BagToSet(agg[p].tasks) : ScrapeRelease(p, t)

Next == NextAgg

\* `gator agg`, few goroutines, all documents.
Spec == Init /\ [][Next]_vars

\* `gator agg`, many goroutines, one document.
SpecAgg == InitAgg /\ [][NextAgg]_vars

\* The scheduling of handlerAgg and of its goroutines: a goroutine that can
\* run does run, the ticker keeps firing and the database answers.  The
\* request of fetchFeed is made with context.Background() by an http.Client
\* without a Timeout: nothing makes it return, so ScrapeFetch is not among
\* the steps that must happen.
FairSpecAgg ==
    /\ SpecAgg
    /\ \A p \in Procs :
        /\ WF_vars(AggParse(p))
        /\ WF_vars(AggAcquire(p))
        /\ WF_vars(AggSpawn(p))
        /\ WF_vars(AggWait(p))
        /\ WF_vars(Tick(p))
        /\ WF_vars(\E t \in BagToSet(agg[p].tasks) : ScrapeSelect(p, t))
        /\ WF_vars(\E t \in BagToSet(agg[p].tasks) : ScrapeMark(p, t))
        /\ WF_vars(\E t \in BagToSet(agg[p].tasks) : ScrapeIngest(p, t))
        /\ WF_vars(\E t \in BagToSet(agg[p].tasks) : ScrapeRelease(p, t))

\* --------------------------------------------------------- handlerAggService
\* A process the process table can give to a new child.
FreeProcs == { p \in Procs : agg[p].pc = "none" }

Children == { p \in Procs : Running(p) }

\* handlerAggService has returned: an error, nil from the first select, nil
\* from the restart window.
Returned == supPc \in {"error", "stopped", "stoppedInWindow"}

\* len(cmd.args) < 1: the usage error, before any child.
SupArgs ==
    /\ supPc = "args"
    /\ supPc' = IF timeArg = "missing" THEN "error" ELSE "loop"
    /\ UNCHANGED << dbVars, cfgVars, agg, sigs, aggCmd, runPc, errCh, cmdCtx,
                    launched, selCount >>

\* The top of the loop: a new context, a new aggCmd, a new errCh and the
\* goroutine that runs aggCmd.Run().
SupLoop ==
    /\ supPc = "loop"
    /\ cmdCtx' = "live"
    /\ aggCmd' = [Process |-> NoProc]
    /\ errCh' = <<>>
    /\ runPc' = "start"
    /\ supPc' = "select1"
    /\ UNCHANGED << dbVars, cfgVars, agg, sigs, launched, selCount >>

\* aggCmd.Run(), first half: Start.  With the context done, or when the
\* program cannot be executed, Run returns the error; else the child exists
\* and aggCmd.Process is set.
RunnerStart ==
    /\ runPc = "start"
    /\ \/ /\ cmdCtx = "live"
          /\ FreeProcs # {}
          /\ LET p == CHOOSE q \in FreeProcs : \A r \in FreeProcs : q <= r
             IN  /\ agg' = [agg EXCEPT ![p] = StartedProcess]
                 /\ aggCmd' = [Process |-> p]
          /\ started' = Bump(started)
          /\ runPc' = "wait"
          /\ UNCHANGED errCh
       \/ /\ errCh' = Append(errCh, "error")
          /\ runPc' = "done"
          /\ UNCHANGED << agg, aggCmd, started >>
    /\ UNCHANGED << dbVars, cmdName, timeArg, launchCap, served, supPc, sigs, cmdCtx,
                    launched, selCount, cliVars >>

\* aggCmd.Run(), second half: Wait returns when the child has exited; the
\* child never exits with status 0, so the error is not nil.
RunnerWait ==
    /\ runPc = "wait"
    /\ agg[aggCmd.Process].pc = "exited"
    /\ agg' = [agg EXCEPT ![aggCmd.Process] = NoProcess]
    /\ errCh' = Append(errCh, "error")
    /\ runPc' = "done"
    /\ UNCHANGED << dbVars, cfgVars, supPc, sigs, aggCmd, cmdCtx, launched, selCount >>

\* SIGINT or SIGTERM is sent to the supervisor: signal.Notify puts it into
\* sigs, or drops it when sigs is full.
Signal ==
    /\ supPc \in {"loop", "select1", "select2"}
    /\ Len(sigs) < sigsCap
    /\ \E sig \in {"SIGINT", "SIGTERM"} : sigs' = Append(sigs, sig)
    /\ UNCHANGED << dbVars, cfgVars, agg, supPc, aggCmd, runPc, errCh, cmdCtx,
                    launched, selCount >>

\* The supervisor's read of aggCmd.Process is not ordered with the write
\* Start makes in the other goroutine: before Start it reads nil, after it
\* either value.
ProcessReads == IF runPc \in {"wait", "done"} THEN {NoProc, aggCmd.Process} ELSE {NoProc}

\* The first select, case sig := <-sigs: cancel(), the signal to the child
\* when aggCmd.Process is seen, return nil.  The process of the supervisor
\* ends with the return; the kill that the done context asks of the exec
\* package happens before that end or not at all.
SupSignalled ==
    /\ supPc = "select1"
    /\ sigs # <<>>
    /\ sigs' = Tail(sigs)
    /\ cmdCtx' = "done"
    /\ \E seen \in ProcessReads, killed \in BOOLEAN :
        LET hit == { p \in Procs :
                        /\ Running(p)
                        /\ \/ p = seen
                           \/ killed /\ runPc = "wait" /\ p = aggCmd.Process }
        IN  agg' = [p \in Procs |-> IF p \in hit THEN ExitedProcess ELSE agg[p]]
    /\ runPc' = "none"
    /\ supPc' = "stopped"
    /\ UNCHANGED << dbVars, cfgVars, aggCmd, errCh, launched, selCount >>

\* Mutant: the supervisor goes to the restart window without the child's
\* exit.
SupChildExitedNoWait ==
    /\ supPc = "select1"
    /\ errCh' = <<>>
    /\ cmdCtx' = "done"
    /\ runPc' = "none"
    /\ supPc' = "select2"
    /\ UNCHANGED << dbVars, cfgVars, agg, sigs, aggCmd, launched, selCount >>

\* Mutant: the supervisor returns the child's error.
SupChildExitedEscalates ==
    /\ supPc = "select1"
    /\ errCh # <<>>
    /\ errCh' = Tail(errCh)
    /\ cmdCtx' = "done"
    /\ runPc' = "none"
    /\ supPc' = "error"
    /\ UNCHANGED << dbVars, cfgVars, agg, sigs, aggCmd, launched, selCount >>

\* The first select, case runErr := <-errCh: cancel(), a log line, and on to
\* the restart window.
SupChildExited ==
    /\ supPc = "select1"
    /\ errCh # <<>>
    /\ errCh' = Tail(errCh)
    /\ cmdCtx' = "done"
    /\ runPc' = "none"
    /\ supPc' = "select2"
    /\ UNCHANGED << dbVars, cfgVars, agg, sigs, aggCmd, launched, selCount >>

\* Mutant: the signal is logged and the loop goes round.
SupWindowSignalledNoReturn ==
    /\ supPc = "select2"
    /\ sigs # <<>>
    /\ sigs' = Tail(sigs)
    /\ supPc' = "loop"
    /\ UNCHANGED << dbVars, cfgVars, agg, aggCmd, runPc, errCh, cmdCtx, launched, selCount >>

\* The second select, case sig := <-sigs: return nil.
SupWindowSignalled ==
    /\ supPc = "select2"
    /\ sigs # <<>>
    /\ sigs' = Tail(sigs)
    /\ supPc' = "stoppedInWindow"
    /\ UNCHANGED << dbVars, cfgVars, agg, aggCmd, runPc, errCh, cmdCtx, launched, selCount >>

\* Mutant: the window is a sleep; a signal in sigs does not end it.
SupRestartSleeps ==
    /\ supPc = "select2"
    /\ supPc' = "loop"
    /\ UNCHANGED << dbVars, cfgVars, agg, sigs, aggCmd, runPc, errCh, cmdCtx,
                    launched, selCount >>

\* The second select, case <-time.After(restartDelay): the timer is made by
\* the select and fires only while the select waits, that is while sigs is
\* empty; the loop goes round.
SupRestart ==
    /\ supPc = "select2"
    /\ sigs = <<>>
    /\ supPc' = "loop"
    /\ UNCHANGED << dbVars, cfgVars, agg, sigs, aggCmd, runPc, errCh, cmdCtx,
                    launched, selCount >>

\* The user ran `gator aggservice <arg>`: the supervisor, no child yet.
InitSup ==
    /\ InitDb(MaxFeedsAgg)
    /\ InitHistory
    /\ NoCommand
    /\ cmdName = "aggservice"
    /\ timeArg \in {"missing", "invalid", "nonpositive", "ok"}
    /\ agg = [p \in Procs |-> NoProcess]
    /\ supPc = "args"
    /\ sigs = <<>>
    /\ aggCmd = [Process |-> NoProc]
    /\ runPc = "none"
    /\ errCh = <<>>
    /\ cmdCtx = "live"
    /\ launchCap = MaxLaunchSup
    /\ served = {1}

NextSup ==
    \/ NextAgg
    \/ SupArgs
    \/ SupLoop
    \/ RunnerStart
    \/ RunnerWait
    \/ Signal
    \/ SupSignalled
    \/ SupChildExited
    \/ SupWindowSignalled
    \/ SupRestart

\* `gator aggservice`.
SpecSup == InitSup /\ [][NextSup]_vars

\* The scheduling of the supervisor's goroutines: a goroutine that can run
\* does run, and the restart timer fires.
FairSpecSup ==
    /\ SpecSup
    /\ WF_vars(RunnerWait)
    /\ WF_vars(SupChildExited)
    /\ WF_vars(SupRestart)
    /\ WF_vars(SupLoop)

\* ------------------------------------------------- the store, read side
Users == {1, 2}

NullString == [String |-> <<>>, Valid |-> FALSE]
\* A row of the posts table.
Post(id, created, title, url, description, published, feed) ==
    [ ID |-> id, CreatedAt |-> created, Title |-> title, Url |-> url,
      Description |-> description, PublishedAt |-> published, FeedID |-> feed ]

\* The posts a store may hold when a user command runs.  Posts 1 and 2 have
\* the same published-or-created time, posts 1 and 3 the same title up to
\* case, and so have posts 2 and 5.
Library ==
    << Post(1, 5, <<"B">>, <<"u", "1">>, [String |-> <<"a", "b">>, Valid |-> TRUE],
            [Time |-> 2, Valid |-> TRUE], 1),
       Post(2, 2, <<"a">>, <<"u", "2">>, NullString, NullTime, 1),
       Post(3, 5, <<"b">>, <<"u", "3">>, [String |-> <<"B", "_">>, Valid |-> TRUE],
            [Time |-> 1, Valid |-> TRUE], 2),
       Post(4, 1, <<"a", "%">>, <<"u", "4">>, NullString,
            [Time |-> 3, Valid |-> TRUE], 1),
       Post(5, 3, <<"A">>, <<"u", "5">>, NullString, NullTime, 2) >>

\* COALESCE(p.published_at, p.created_at)
PublishedOrCreated(p) ==
    IF p.PublishedAt.Valid THEN p.PublishedAt.Time ELSE p.CreatedAt

\* posts p JOIN feed_follows ff ON p.feed_id = ff.feed_id WHERE ff.user_id = $1
PostsOfUser(tbl, fl, user) == { p \in tbl : << user, p.FeedID >> \in fl }

RECURSIVE DescOrders(_)
\* ORDER BY COALESCE(...) DESC: every sequence of the rows whose keys do not
\* increase; the order among rows of equal key is the database's choice.
DescOrders(rows) ==
    IF rows = {} THEN { <<>> }
    ELSE UNION { { <<p>> \o s : s \in DescOrders(rows \ {p}) } :
                 p \in { q \in rows :
                            \A r \in rows : PublishedOrCreated(q) >= PublishedOrCreated(r) } }

\* LIMIT $2 OFFSET $3 of an ordered result.
LimitOffset(s, limit, offset) ==
    SubSeq(s, offset + 1, IF Len(s) < offset + limit THEN Len(s) ELSE offset + limit)

\* GetPostsForUserPaginated: the pages the query may return, or an error (a
\* negative LIMIT or OFFSET is rejected by the database).
GetPostsForUserPaginated(tbl, fl, user, limit, offset) ==
    IF limit < 0 \/ offset < 0
    THEN [err |-> TRUE, pages |-> {}]
    ELSE [err |-> FALSE,
          pages |-> { LimitOffset(s, limit, offset) :
                        s \in DescOrders(PostsOfUser(tbl, fl, user)) }]

\* ------------------------------------------------------------ handlerBrowse
sTitle == <<"t", "i", "t", "l", "e">>
sPublished == <<"p", "u", "b", "l", "i", "s", "h", "e", "d">>
sPublishedAt == <<"p", "u", "b", "l", "i", "s", "h", "e", "d", "_", "a", "t">>
sAsc == <<"a", "s", "c">>
sDesc == <<"d", "e", "s", "c">>


\* ------------------------------------------------- the user's commands
\* browse [limit] [offset] [sort] [order] [feedFilter]
BrowseArgVectors ==
    LET LimitArgs  == { Itoa(0), Itoa(MaxStore + 1), <<"x">> }
        OffsetArgs == { Itoa(1), Itoa(MaxStore), Itoa(2^Int32Bits), <<"x">> }
        SortArgs   == { sTitle, <<"T", "i", "t", "l", "e">>, sPublished, <<"i", "d">> }
        OrderArgs  == { sAsc, <<"D", "E", "S", "C">>, <<"u", "p">> }
        FilterArgs == { Itoa(1), Itoa(2) }
    IN  UNION { { SubSeq(<< l, o, c, r, f >>, 1, n) :
                    l \in LimitArgs, o \in OffsetArgs, c \in SortArgs,
                    r \in OrderArgs, f \in FilterArgs } : n \in 0..5 }

\* search <query>
SearchArgVectors ==
    LET Queries == { <<>>, <<"a">>, <<"B">>, <<"z">>, <<"_">>, <<"%">>, <<"\\">> }
    IN  { <<>> } \cup { << q >> : q \in Queries }

\* bookmark <post-id>
BookmarkArgVectors ==
    { <<>>, << <<"x">> >>, << <<"+", "1">> >> }
        \cup { << Itoa(i) >> : i \in 1..(MaxStore + 1) }

\* The locals of handlerBrowse with their defaults.
BrowseStart(args, user) ==
    [ pc |-> "args", cmd |-> "browse", args |-> args, user |-> user,
      limit |-> 2, offset |-> 0, sortBy |-> sPublishedAt, order |-> sDesc,
      feedFilter |-> <<>>, page |-> <<>>, posts |-> <<>>, out |-> <<>>,
      err |-> "none" ]

\* return fmt.Errorf(...)
Fail(e) == cli' = [cli EXCEPT !.pc = "done", !.err = e]

\* The parsing of cmd.args.
BrowseArgs ==
    /\ cli.pc = "args"
    /\ cli.cmd = "browse"
    /\ LET a   == cli.args
           lim == IF Len(a) > 0 THEN Atoi(a[1]) ELSE [ok |-> TRUE, val |-> cli.limit]
           off == IF Len(a) > 1 THEN Atoi(a[2]) ELSE [ok |-> TRUE, val |-> cli.offset]
           srt == IF Len(a) > 2 THEN ToLower(a[3]) ELSE cli.sortBy
           ord == IF Len(a) > 3 THEN ToLower(a[4]) ELSE cli.order
           flt == IF Len(a) > 4 THEN a[5] ELSE cli.feedFilter
       IN  IF ~lim.ok THEN Fail("invalid limit")
           ELSE IF ~off.ok THEN Fail("invalid offset")
           ELSE IF ord # sAsc /\ ord # sDesc THEN Fail("invalid order")
           ELSE cli' = [cli EXCEPT !.pc = "query", !.limit = lim.val,
                                   !.offset = off.val, !.sortBy = srt,
                                   !.order = ord, !.feedFilter = flt]
    /\ UNCHANGED << engineVars, follows, bookmarks >>

\* posts, err := s.db.GetPostsForUserPaginated(...)
BrowseQuery ==
    /\ cli.pc = "query"
    /\ cli.cmd = "browse"
    /\ \E dbOk \in BOOLEAN :
        LET r == GetPostsForUserPaginated(posts, follows, cli.user,
                                          Int32(cli.limit), Int32(cli.offset))
        IN  IF ~dbOk \/ r.err
            THEN Fail("error fetching posts")
            ELSE \E page \in r.pages :
                    cli' = [cli EXCEPT !.pc = "arrange", !.page = page, !.posts = page]
    /\ UNCHANGED << engineVars, follows, bookmarks >>

\* Mutant: the feed filter keeps every post.
FilteredKeepsAll(s, feedFilter) == s

\* The feed filter: the posts whose feed identity has the text of the filter
\* (post.FeedID.String() == feedFilter).
Filtered(s, feedFilter) ==
    IF feedFilter # <<>>
    THEN SelectSeq(s, LAMBDA p : Itoa(p.FeedID) = feedFilter)
    ELSE s

Swap(s, i, j) == [s EXCEPT ![i] = s[j], ![j] = s[i]]

\* Mutant: the titles are compared as they are.
LessByCaseSensitive(sortBy, a, b) ==
    IF sortBy = sTitle
    THEN StrLess(a.Title, b.Title)
    ELSE PublishedOrCreated(a) < PublishedOrCreated(b)

\* The less function of the two sorts.
LessBy(sortBy, a, b) ==
    IF sortBy = sTitle
    THEN StrLess(ToLower(a.Title), ToLower(b.Title))
    ELSE PublishedOrCreated(a) < PublishedOrCreated(b)

RECURSIVE Sift(_, _, _)
\* for j := i; j > a && less(j, j-1); j-- { swap(j, j-1) }
Sift(sortBy, s, j) ==
    IF j > 1 /\ LessBy(sortBy, s[j], s[j - 1])
    THEN Sift(sortBy, Swap(s, j, j - 1), j - 1)
    ELSE s

RECURSIVE InsertionSort(_, _, _)
InsertionSort(sortBy, s, i) ==
    IF i > Len(s) THEN s ELSE InsertionSort(sortBy, Sift(sortBy, s, i), i + 1)

\* sort.SliceStable: for the lengths a page has here it is the insertion
\* sort of the package.
SliceStable(sortBy, s) == InsertionSort(sortBy, s, 2)

RECURSIVE ReverseLoop(_, _, _)
ReverseLoop(s, i, j) ==
    IF i < j THEN ReverseLoop(Swap(s, i, j), i + 1, j - 1) ELSE s

\* for i, j := 0, len(posts)-1; i < j; i, j = i+1, j-1 { swap }
ReverseInPlace(s) == ReverseLoop(s, 1, Len(s))

RECURSIVE SiftDescending(_, _, _)
SiftDescending(sortBy, s, j) ==
    IF j > 1 /\ LessBy(sortBy, s[j - 1], s[j])
    THEN SiftDescending(sortBy, Swap(s, j, j - 1), j - 1)
    ELSE s

RECURSIVE InsertionSortDescending(_, _, _)
InsertionSortDescending(sortBy, s, i) ==
    IF i > Len(s) THEN s
    ELSE InsertionSortDescending(sortBy, SiftDescending(sortBy, s, i), i + 1)

\* Mutant: descending order is a stable sort of its own.
ArrangedByDescendingSort(s, sortBy, order) ==
    IF order = sDesc
    THEN InsertionSortDescending(sortBy, s, 2)
    ELSE SliceStable(sortBy, s)

\* The sort and the reversal for order "desc".
Arranged(s, sortBy, order) ==
    IF order = sDesc
    THEN ReverseInPlace(SliceStable(sortBy, s))
    ELSE SliceStable(sortBy, s)

SortColumns == { sTitle, sPublishedAt, sPublished }

\* Mutant: the switch has no default case; an unknown column leaves the
\* posts as they are.
UnknownColumnIgnored(c) == [c EXCEPT !.pc = "print"]

\* The default case of the switch on sortBy.
UnknownColumn(c) == [c EXCEPT !.pc = "done", !.err = "unsupported sort column"]

\* The feed filter, the switch on sortBy and the reversal.
BrowseArrange ==
    /\ cli.pc = "arrange"
    /\ IF cli.sortBy \in SortColumns
       THEN cli' = [cli EXCEPT !.pc = "print",
                               !.posts = Arranged(Filtered(cli.posts, cli.feedFilter),
                                                  cli.sortBy, cli.order)]
       ELSE cli' = UnknownColumn(cli)
    /\ UNCHANGED << engineVars, follows, bookmarks >>

\* One round of the loop that prints the posts, or return nil after it.
BrowsePrint ==
    /\ cli.pc = "print"
    /\ cli.cmd = "browse"
    /\ IF Len(cli.out) < Len(cli.posts)
       THEN cli' = [cli EXCEPT !.out = Append(@, cli.posts[Len(cli.out) + 1])]
       ELSE cli' = [cli EXCEPT !.pc = "done", !.err = "nil"]
    /\ UNCHANGED << engineVars, follows, bookmarks >>


\* ------------------------------------------------------------ handlerSearch
RECURSIVE Like(_, _)
\* s LIKE pat: % stands for any run of characters, _ for any one character,
\* and a backslash takes the next character of the pattern as it is.
Like(s, pat) ==
    IF pat = <<>> THEN s = <<>>
    ELSE IF Head(pat) = "%"
        THEN Like(s, Tail(pat)) \/ (s # <<>> /\ Like(Tail(s), pat))
    ELSE IF Head(pat) = "_"
        THEN s # <<>> /\ Like(Tail(s), Tail(pat))
    ELSE IF Head(pat) = "\\" /\ Tail(pat) # <<>>
        THEN s # <<>> /\ Head(s) = pat[2] /\ Like(Tail(s), Tail(Tail(pat)))
    ELSE s # <<>> /\ Head(s) = Head(pat) /\ Like(Tail(s), Tail(pat))

\* s ILIKE pat
ILike(s, pat) == Like(ToLower(s), ToLower(pat))

\* p.title ILIKE $2 OR p.description ILIKE $2; a NULL description matches
\* nothing.
MatchesPattern(p, pat) ==
    \/ ILike(p.Title, pat)
    \/ p.Description.Valid /\ ILike(p.Description.String, pat)

\* SearchPosts: the results the query may return.
SearchPosts(tbl, fl, user, pat) ==
    DescOrders({ p \in PostsOfUser(tbl, fl, user) : MatchesPattern(p, pat) })

SearchStart(args, user) ==
    [ pc |-> "args", cmd |-> "search", args |-> args, user |-> user,
      posts |-> <<>>, out |-> <<>>, err |-> "none" ]

\* len(cmd.args) < 1
SearchArgs ==
    /\ cli.pc = "args"
    /\ cli.cmd = "search"
    /\ IF Len(cli.args) < 1
       THEN Fail("usage")
       ELSE cli' = [cli EXCEPT !.pc = "query"]
    /\ UNCHANGED << engineVars, follows, bookmarks >>

\* posts, err := s.db.SearchPosts(...)
SearchQuery ==
    /\ cli.pc = "query"
    /\ cli.cmd = "search"
    /\ \E dbOk \in BOOLEAN :
        \* fmt.Sprintf("%%%s%%", query)
        LET pattern == <<"%">> \o cli.args[1] \o <<"%">>
        IN  IF ~dbOk
            THEN Fail("error searching posts")
            ELSE \E found \in SearchPosts(posts, follows, cli.user, pattern) :
                    cli' = [cli EXCEPT !.pc = "print", !.posts = found]
    /\ UNCHANGED << engineVars, follows, bookmarks >>

\* One round of the loop that prints the posts, or return nil after it.
SearchPrint ==
    /\ cli.pc = "print"
    /\ cli.cmd = "search"
    /\ IF Len(cli.out) < Len(cli.posts)
       THEN cli' = [cli EXCEPT !.out = Append(@, cli.posts[Len(cli.out) + 1])]
       ELSE cli' = [cli EXCEPT !.pc = "done", !.err = "nil"]
    /\ UNCHANGED << engineVars, follows, bookmarks >>

\* ---------------------------------------------------------- handlerBookmark
\* uuid.Parse: the identity a text names, or an error.  Several texts name
\* the same identity.
ParseID(s) == Atoi(s)

\* A row of the bookmarks table.  id is gen_random_uuid(): rows that differ
\* in it alone are the copies of one element of the bag.
Bookmark(user, post) == [ UserID |-> user, PostID |-> post ]

\* BookmarkPost: an INSERT into bookmarks.  post_id REFERENCES posts(id) and
\* UNIQUE(user_id, post_id): a row that breaks either is rejected with an
\* error.
BookmarkPost(tbl, ids, user, post, dbOk) ==
    IF \/ ~dbOk
       \/ post \notin ids
       \/ BagIn(Bookmark(user, post), tbl)
    THEN [bookmarks |-> tbl, err |-> TRUE]
    ELSE [bookmarks |-> tbl (+) SetToBag({ Bookmark(user, post) }), err |-> FALSE]

BookmarkStart(args, user) ==
    [ pc |-> "args", cmd |-> "bookmark", args |-> args, user |-> user,
      postID |-> 0, out |-> <<>>, err |-> "none" ]

\* len(cmd.args) < 1 and uuid.Parse(postID)
BookmarkArgs ==
    /\ cli.pc = "args"
    /\ cli.cmd = "bookmark"
    /\ IF Len(cli.args) < 1
       THEN Fail("usage")
       ELSE IF ~ParseID(cli.args[1]).ok
       THEN Fail("invalid post ID")
       ELSE cli' = [cli EXCEPT !.pc = "insert", !.postID = ParseID(cli.args[1]).val]
    /\ UNCHANGED << engineVars, follows, bookmarks >>

\* Mutant: the error of BookmarkPost is dropped.
AfterBookmarkPostSwallows(c, err) ==
    [c EXCEPT !.pc = "done", !.err = "nil", !.out = << c.args[1] >>]

\* The statement after BookmarkPost: its error is returned, else the success
\* line is printed and nil is returned.
AfterBookmarkPost(c, err) ==
    IF err
    THEN [c EXCEPT !.pc = "done", !.err = "error bookmarking post"]
    ELSE [c EXCEPT !.pc = "done", !.err = "nil", !.out = << c.args[1] >>]

\* err = s.db.BookmarkPost(...)
BookmarkInsert ==
    /\ cli.pc = "insert"
    /\ \E dbOk \in BOOLEAN :
        LET r == BookmarkPost(bookmarks, { p.ID : p \in posts }, cli.user,
                              cli.postID, dbOk)
        IN  /\ bookmarks' = r.bookmarks
            /\ cli' = AfterBookmarkPost(cli, r.err)
    /\ UNCHANGED << engineVars, follows >>

\* The user runs the next bookmark command.
BookmarkAgain ==
    /\ cli.pc = "done"
    /\ cli.cmd = "bookmark"
    /\ \E args \in BookmarkArgVectors, user \in Users :
        cli' = BookmarkStart(args, user)
    /\ UNCHANGED << engineVars, follows, bookmarks >>

\* The database when a user command runs: some posts of the library, all
\* feeds fetched, no aggregator and no supervisor at work.
InitStore(stores) ==
    /\ \E ids \in stores : posts = { Library[i] : i \in ids }
    /\ lastFetched = [f \in Feeds |-> 5]
    /\ now = 5
    /\ InitHistory
    /\ NoSupervisor
    /\ agg = [p \in Procs |-> NoProcess]
    /\ timeArg = "missing"
    /\ launchCap = 0
    /\ served = {}
    /\ bookmarks = EmptyBag

\* The user ran `gator browse ...` or `gator search ...`.
InitCli ==
    /\ InitStore(SUBSET (1..MaxStore))
    /\ \E F \in SUBSET ({1} \X Feeds) : follows = F \cup { <<2, 2>> }
    /\ cmdName \in {"browse", "search"}
    /\ \E user \in Users :
        \/ /\ cmdName = "browse"
           /\ \E args \in BrowseArgVectors : cli = BrowseStart(args, user)
        \/ /\ cmdName = "search"
           /\ \E args \in SearchArgVectors : cli = SearchStart(args, user)

NextCli ==
    \/ BrowseArgs
    \/ BrowseQuery
    \/ BrowseArrange
    \/ BrowsePrint
    \/ SearchArgs
    \/ SearchQuery
    \/ SearchPrint

\* `gator browse` and `gator search`.
SpecCli == InitCli /\ [][NextCli]_vars

\* The user ran `gator bookmark ...`.
InitBookmark ==
    /\ InitStore({ 1..MaxStore })
    /\ follows = {}
    /\ cmdName = "bookmark"
    /\ \E args \in BookmarkArgVectors, user \in Users : cli = BookmarkStart(args, user)

NextBookmark ==
    \/ BookmarkArgs
    \/ BookmarkInsert
    \/ BookmarkAgain

\* `gator bookmark`, one command after the other.
SpecBookmark == InitBookmark /\ [][NextBookmark]_vars

\* -------------------------------------------------------- TestParsePublished
\* s := ts.Format(layout)
TestFormat ==
    /\ cli.pc = "format"
    /\ cli' = [cli EXCEPT !.pc = "parse", !.s = Format(cli.t, cli.layout)]
    /\ UNCHANGED << engineVars, follows, bookmarks >>

\* _, ok := parsePublished(s)
TestParse ==
    /\ cli.pc = "parse"
    /\ cli' = [cli EXCEPT !.pc = "done", !.got = parsePublished(cli.s, cli.local)]
    /\ UNCHANGED << engineVars, follows, bookmarks >>

\* The test with an instant (midnight, 15:04 and 22:04 UTC of 2 January 2006,
\* and the seconds after them), a location, a layout of the list, and the
\* zone time.Local is where the test runs.
InitDate ==
    /\ InitStore({ {} })
    /\ follows = {}
    /\ cmdName = "test"
    /\ \E m \in {0, 904, 1324}, sec \in 0..MaxSecond, zone \in Locations,
          local \in { UTCZone, MSTZone }, i \in DOMAIN publishedLayouts :
            \* the locals: ts, layout, s and what parsePublished returned
            cli = [ pc |-> "format", cmd |-> "test", t |-> Time(m * 60 + sec, zone),
                    layout |-> publishedLayouts[i], local |-> local, s |-> <<>>,
                    got |-> [time |-> ZeroTime, found |-> FALSE] ]

NextDate ==
    \/ TestFormat
    \/ TestParse

\* Format, then parsePublished.
SpecDate == InitDate /\ [][NextDate]_vars

\* ===================================================================== claims
AllTasks(p) == BagToSet(agg[p].tasks)

\* C1: in every agg process at most 5 scrapeFeeds goroutines have been
\* launched and have not ended, whatever the order of ticks and task steps.
C1_AtMostFiveInFlight ==
    \A p \in Procs : BagCardinality(agg[p].tasks) <= 5

\* C1 witness: 5 goroutines in flight, a tick buffered, and handlerAgg blocked
\* on the full channel.
C1_Witness ==
    \E p \in Procs :
        /\ BagCardinality(agg[p].tasks) = 5
        /\ agg[p].pc = "acquire"
        /\ agg[p].ticker = 1
        /\ launched < launchCap

UrlKnown(u) == \E q \in posts : q.Url = u

\* The item a goroutine at the loop body is about to insert.
NextItem(t) == Documents[t.doc][t.idx]

\* C2: the posts table holds at most one post per URL; the insert of an item
\* whose URL is in the table reports no error and leaves the table as it is;
\* a step changes the table only by adding one post with a URL it did not hold.
C2_OnePostPerUrl ==
    /\ [](/\ \A q, r \in posts : q.Url = r.Url => q = r
          /\ \A p \in Procs : \A t \in AllTasks(p) :
                (t.pc = "ingest" /\ UrlKnown(TrimSpace(NextItem(t).Link))) =>
                    CreatePost(posts, PostParams(t.feed, NextItem(t)), TRUE)
                        = [posts |-> posts, err |-> FALSE])
    /\ [][posts' # posts =>
            \E q \in posts' : /\ posts' = posts \cup {q}
                              /\ ~UrlKnown(q.Url)]_vars

\* C2 witness: two goroutines are in the loop over the same document and the
\* next item of one of them is in the table already.
C2_Witness ==
    \E p \in Procs : \E t \in AllTasks(p) :
        /\ t.pc = "ingest"
        /\ UrlKnown(TrimSpace(NextItem(t).Link))
        /\ \/ CopiesIn(t, agg[p].tasks) >= 2
           \/ \E u \in AllTasks(p) : u # t /\ u.pc = "ingest" /\ u.doc = t.doc

\* A child process comes into being in this step.
ChildStarts == \E p \in Procs : agg[p].pc = "none" /\ agg'[p].pc # "none"

C4_OneChildAtATime ==
    /\ [](Cardinality(Children) <= 1)
    /\ [][ChildStarts => Children = {}]_vars

\* C4 witness: a second child runs after the first one has exited.
C4_Witness == started = 2 /\ Cardinality(Children) = 1

\* C5: the receipt of the child's exit leads to the restart window, never to
\* a return; from the window, absent a signal, the loop goes round and
\* launches a child; the supervisor returns from the loop only by taking a
\* signal; and, under fair scheduling, every exit of aggCmd.Run() is followed
\* by a new launch or by a signal.
C5_RestartAfterExit ==
    /\ [][ /\ (Len(errCh') < Len(errCh) => supPc' = "select2")
           /\ ((supPc = "select2" /\ supPc' # supPc /\ sigs' = sigs) => supPc' = "loop")
           /\ ((supPc = "loop" /\ supPc' # supPc) => (supPc' = "select1" /\ runPc' = "start"))
           /\ ((supPc \in {"loop", "select1", "select2"} /\ Returned') =>
                    Len(sigs') < Len(sigs)) ]_vars
    /\ (runPc = "done") ~> (runPc = "start" \/ sigs # <<>>)

\* C5 witness: with a rejected duration the child has exited twice and the
\* supervisor is in the restart window again.
C5_Witness == timeArg = "invalid" /\ started = 2 /\ supPc = "select2"

\* C6: the step by which the supervisor returns from the first select leaves
\* no child running (the child was signalled or cancelled), and after the
\* return no scrapeFeeds goroutine is launched.
C6_SignalForwarded ==
    [][ /\ ((supPc = "select1" /\ supPc' = "stopped") => Children' = {})
        /\ (supPc = "stopped" => launched' = launched) ]_vars

\* C7: with a signal in sigs during the restart window the supervisor's next
\* step is its return; no child is started by that step or after it.
C7_SignalInWindow ==
    [][ /\ ((supPc = "select2" /\ sigs # <<>>) =>
                (supPc' \in {"select2", "stoppedInWindow"} /\ ~ChildStarts /\ runPc' = "none"))
        /\ (supPc = "stoppedInWindow" => (supPc' = supPc /\ ~ChildStarts)) ]_vars

\* C7 witness: the supervisor has returned from the restart window.
C7_Witness == supPc = "stoppedInWindow" /\ started >= 1 /\ Children = {}

\* A goroutine arrives at the fetch of feed f in this step.
FetchEntered(f) ==
    \E p \in Procs :
        CopiesIn(Task("fetch", f, NoDoc, 0), agg'[p].tasks)
            > CopiesIn(Task("fetch", f, NoDoc, 0), agg[p].tasks)

\* C8: a goroutine arrives at the fetch of a feed only by the step that
\* writes the feed's last_fetched_at; a goroutine at the fetch or in the loop
\* has its feed marked; and no step (a failed fetch, the end of the process)
\* takes a mark back.
C8_MarkBeforeFetch ==
    /\ [](\A p \in Procs : \A t \in AllTasks(p) :
            t.pc \in {"fetch", "ingest"} => lastFetched[t.feed] # NULL)
    /\ [][ /\ \A f \in Registered :
                FetchEntered(f) => (lastFetched'[f] = now' /\ now' > now)
           /\ \A f \in Registered :
                lastFetched[f] # NULL => lastFetched'[f] >= lastFetched[f] ]_vars

\* C8 witness: the process has died with a feed marked and no post stored.
C8_Witness ==
    /\ timeArg = "ok"
    /\ agg[1].pc = "exited"
    /\ \E f \in Registered : lastFetched[f] # NULL
    /\ posts = {}

\* GetNextFeedToFetch returns feed f to a goroutine in this step.
Selected(f) ==
    \E p \in Procs :
        CopiesIn(Task("mark", f, NoDoc, 0), agg'[p].tasks)
            > CopiesIn(Task("mark", f, NoDoc, 0), agg[p].tasks)

\* A goroutine is in the network fetch of feed f.
FetchInFlight(f) ==
    \E p \in Procs : \E t \in AllTasks(p) : t.pc = "fetch" /\ t.feed = f

C10_FairRotation ==
    \A f, g \in Registered : selCount[f] >= 2 => selCount[g] >= 1

\* The goroutine in local state t of process p leaves that state in this step
\* and the process lives on.
TaskSteps(p, t) ==
    /\ agg'[p].pc = agg[p].pc
    /\ CopiesIn(t, agg'[p].tasks) < CopiesIn(t, agg[p].tasks)

\* Where the range loop stands after the item of t: at the next item of the
\* document, or past the last one.
LoopSuccessor(t) ==
    IF t.idx = Len(Documents[t.doc])
    THEN Released
    ELSE [t EXCEPT !.idx = t.idx + 1]

\* C11: a step of the loop body, whether its insert fails or not, takes the
\* goroutine to the next item of the document (to the return after the last
\* item); it removes no stored post, and it adds nothing or the post of its
\* item.
C11_ItemFailureSkipped ==
    [][\A p \in Procs : \A t \in AllTasks(p) :
        (t.pc = "ingest" /\ TaskSteps(p, t)) =>
            /\ CopiesIn(LoopSuccessor(t), agg'[p].tasks)
                    > CopiesIn(LoopSuccessor(t), agg[p].tasks)
            /\ posts \subseteq posts'
            /\ posts' \in {posts, posts \cup {PostParams(t.feed, NextItem(t))}}]_vars

\* C11 witness: a goroutine is at the second item of document 2 and the post
\* of the first item, whose insert failed, is not stored.
C11_Witness ==
    \E p \in Procs : \E t \in AllTasks(p) :
        /\ t.pc = "ingest" /\ t.doc = 2 /\ t.idx = 2
        /\ ~UrlKnown(TrimSpace(Documents[2][1].Link))

\* C12: the step in which fetchFeed fails stores no post, leaves the
\* goroutine at its return (not at a second fetch) and leaves handlerAgg, the
\* ticker and feedChan as they are; the goroutine's only step from there is
\* the receive from feedChan, which frees one slot and ends the goroutine;
\* and a goroutine that holds a slot can always free it.
C12_FailedFetchContained ==
    /\ [](\A p \in Procs : BagCardinality(agg[p].tasks) <= agg[p].feedChan)
    /\ [][\A p \in Procs : \A t \in AllTasks(p) :
            /\ (t.pc = "fetch" /\ TaskSteps(p, t)) =>
                    /\ BagCardinality(agg'[p].tasks) = BagCardinality(agg[p].tasks)
                    /\ agg'[p].feedChan = agg[p].feedChan
                    /\ agg'[p].ticker = agg[p].ticker
                    /\ posts' = posts
                    /\ \A u \in BagToSet(agg'[p].tasks) :
                            CopiesIn(u, agg'[p].tasks) > CopiesIn(u, agg[p].tasks) =>
                                \/ u = FetchFailed
                                \/ u.pc = "ingest" /\ u.feed = t.feed /\ u.idx = 1
            /\ (t.pc = "failed" /\ TaskSteps(p, t)) =>
                    /\ agg'[p].tasks = agg[p].tasks (-) One(t)
                    /\ agg'[p].feedChan = agg[p].feedChan - 1
                    /\ agg'[p].ticker = agg[p].ticker
                    /\ posts' = posts]_vars

\* C12 witness: a fetch has failed, no post is stored, and handlerAgg is in
\* its loop with a tick buffered and a launch left: the next launch can be
\* made.
C12_Witness ==
    \E p \in Procs :
        /\ CopiesIn(FetchFailed, agg[p].tasks) >= 1
        /\ posts = {}
        /\ agg[p].pc = "wait"
        /\ agg[p].ticker = 1
        /\ launched < launchCap

\* ------------------------------------------------------------------ browse
\* handlerBrowse has sorted the page it got from the store.
BrowseArranged ==
    /\ cli.pc \in {"print", "done"}
    /\ cli.cmd = "browse"
    /\ cli.err \in {"none", "nil"}

\* The position of a post in a sequence of distinct posts.
IndexIn(s, x) == CHOOSE i \in 1..Len(s) : s[i] = x

\* The key of a post under a sort field.
SortKey(sortBy, p) ==
    IF sortBy = sTitle THEN ToLower(p.Title) ELSE PublishedOrCreated(p)

KeyBefore(sortBy, k, l) == IF sortBy = sTitle THEN StrLess(k, l) ELSE k < l

\* C13: for the page, the sort field and the feed filter of every browse, the
\* sequence for order desc is the sequence for order asc with the positions
\* reversed; handlerBrowse emits the one its order asks for; and under desc
\* posts of equal key stand in the reverse of their order in the page.
C13_DescIsReverseOfAsc ==
    BrowseArranged =>
        LET src  == Filtered(cli.page, cli.feedFilter)
            asc  == Arranged(src, cli.sortBy, sAsc)
            desc == Arranged(src, cli.sortBy, sDesc)
            n    == Len(asc)
        IN  /\ Len(desc) = n
            /\ \A i \in 1..n : desc[i] = asc[n + 1 - i]
            /\ cli.posts = IF cli.order = sDesc THEN desc ELSE asc
            /\ \A i, j \in 1..n :
                (i < j /\ SortKey(cli.sortBy, desc[i]) = SortKey(cli.sortBy, desc[j]))
                    => IndexIn(src, desc[i]) > IndexIn(src, desc[j])

\* C13 witness: a browse by title, descending, has printed two posts whose
\* titles are equal up to case.
C13_Witness ==
    /\ BrowseArranged
    /\ cli.pc = "done"
    /\ cli.sortBy = sTitle
    /\ cli.order = sDesc
    /\ \E i, j \in 1..Len(cli.out) :
        /\ i < j
        /\ cli.out[i].Title # cli.out[j].Title
        /\ ToLower(cli.out[i].Title) = ToLower(cli.out[j].Title)

\* C14: the sequence for order asc holds the posts of the filtered page, each
\* once; its keys do not decrease (the lower-cased title, or the published
\* time and the creation time in its absence); posts of equal key stand in
\* their order in the page; and a browse with order asc emits that sequence.
C14_AscIsStableSort ==
    BrowseArranged =>
        LET src == Filtered(cli.page, cli.feedFilter)
            asc == Arranged(src, cli.sortBy, sAsc)
            n   == Len(asc)
        IN  /\ n = Len(src)
            /\ { asc[i] : i \in 1..n } = { src[i] : i \in 1..n }
            /\ \A i, j \in 1..n :
                i < j =>
                    /\ ~KeyBefore(cli.sortBy, SortKey(cli.sortBy, asc[j]),
                                  SortKey(cli.sortBy, asc[i]))
                    /\ SortKey(cli.sortBy, asc[i]) = SortKey(cli.sortBy, asc[j])
                            => IndexIn(src, asc[i]) < IndexIn(src, asc[j])
            /\ cli.order = sAsc => cli.posts = asc

\* C14 witness: a browse by published time, ascending, has printed a post
\* without a published time and a post of the same key.
C14_Witness ==
    /\ BrowseArranged
    /\ cli.pc = "done"
    /\ cli.sortBy = sPublished
    /\ cli.order = sAsc
    /\ \E i, j \in 1..Len(cli.out) :
        /\ i < j
        /\ ~cli.out[i].PublishedAt.Valid
        /\ PublishedOrCreated(cli.out[i]) = PublishedOrCreated(cli.out[j])

\* C15: a browse that returns nil with an offset at or beyond the number of
\* the user's posts, or with limit 0, has emitted nothing; and the query with
\* limit 0 and an offset that is not negative is not rejected.
C15_PaginationBoundaries ==
    /\ (cli.cmd = "browse" /\ cli.pc = "done" /\ cli.err = "nil") =>
            ((\/ cli.offset >= Cardinality(PostsOfUser(posts, follows, cli.user))
              \/ cli.limit = 0)
                => cli.out = <<>>)
    /\ (cli.cmd = "browse" /\ cli.pc = "query" /\ cli.limit = 0 /\ cli.offset >= 0) =>
            ~GetPostsForUserPaginated(posts, follows, cli.user, 0, cli.offset).err

\* The i-th argument is given and is not the text of an integer.
NotAnInteger(i) == Len(cli.args) >= i /\ ~Atoi(cli.args[i]).ok

\* handlerBrowse has returned an error.
BrowseFailed == cli.cmd = "browse" /\ cli.pc = "done" /\ cli.err # "nil"

\* C16 as stated: a browse whose sort field is not one of title, published,
\* published_at, whose order is not asc or desc, or whose limit or offset is
\* not an integer, returns an error; and a browse that returns an error has
\* emitted nothing.
C16_ErrorAndNoOutput ==
    /\ (cli.cmd = "browse" /\ cli.pc \in {"print", "done"}) =>
            ((\/ NotAnInteger(1)
              \/ NotAnInteger(2)
              \/ Len(cli.args) >= 3 /\ cli.args[3] \notin SortColumns
              \/ Len(cli.args) >= 4 /\ cli.args[4] \notin {sAsc, sDesc})
                => BrowseFailed)
    /\ (cli.cmd = "browse" /\ cli.err \notin {"none", "nil"}) =>
            (cli.out = <<>> /\ cli.pc = "done")

\* C16 as amended: the sort field and the order are compared in lower case.
C16_ErrorAndNoOutputLowerCase ==
    /\ []((cli.cmd = "browse" /\ cli.pc \in {"print", "done"}) =>
            ((\/ NotAnInteger(1)
              \/ NotAnInteger(2)
              \/ Len(cli.args) >= 3 /\ ToLower(cli.args[3]) \notin SortColumns
              \/ Len(cli.args) >= 4 /\ ToLower(cli.args[4]) \notin {sAsc, sDesc})
                => BrowseFailed))
    /\ []((cli.cmd = "browse" /\ cli.err \notin {"none", "nil"}) =>
            (cli.out = <<>> /\ cli.pc = "done"))
    /\ [][(cli.cmd = "browse" /\ cli.pc = "done") => cli' = cli]_vars

\* C16 witness: the query returned a page with posts and the browse failed on
\* its sort column.
C16_Witness ==
    /\ BrowseFailed
    /\ cli.err = "unsupported sort column"
    /\ cli.page # <<>>

\* ------------------------------------------------------------------ search
\* q occurs in s.
Contains(s, q) ==
    \E i \in 0..(Len(s) - Len(q)) : SubSeq(s, i + 1, i + Len(q)) = q

ContainsQuery(p, q) ==
    \/ Contains(ToLower(p.Title), ToLower(q))
    \/ p.Description.Valid /\ Contains(ToLower(p.Description.String), ToLower(q))

\* C17: a search that got its result has each post of a followed feed whose
\* title or description contains the query, without regard to case, once and
\* no other post, in an order in which the published-or-created time does not
\* increase; and every post a search or a browse holds or has emitted is of a
\* feed the user follows.
C17_SearchExact ==
    /\ (cli.cmd = "search" /\ cli.pc \in {"print", "done"} /\ cli.err \in {"none", "nil"}) =>
            LET found == cli.posts
                n     == Len(found)
            IN  /\ { found[i] : i \in 1..n }
                    = { p \in PostsOfUser(posts, follows, cli.user) :
                            ContainsQuery(p, cli.args[1]) }
                /\ \A i, j \in 1..n : i < j =>
                        /\ found[i] # found[j]
                        /\ PublishedOrCreated(found[i]) >= PublishedOrCreated(found[j])
    /\ (cli.cmd \in {"search", "browse"}) =>
            /\ \A i \in 1..Len(cli.posts) : << cli.user, cli.posts[i].FeedID >> \in follows
            /\ \A i \in 1..Len(cli.out) : << cli.user, cli.out[i].FeedID >> \in follows

\* ---------------------------------------------------------------- round trip
\* C18: parsePublished of the text Format wrote for an instant, in any layout
\* of the list, reports found and returns the same instant.
C18_RoundTrip ==
    (cli.pc = "done" /\ cli.cmd = "test") =>
        /\ cli.got.found
        /\ cli.got.time.sec = cli.t.sec

\* ------------------------------------------------------------ publish dates
\* The publish dates of the documents that are empty, white space only, or
\* text that is no date.
NoDates == { <<>>, << " ", "\t" >>, << "n", "o", "w" >> }

\* The item of t has a publish date that is no date.
Undated(t) == t.pc = "ingest" /\ NextItem(t).PubDate \in NoDates

\* C19: parsePublished reports not-found for an empty, a white-space-only and
\* an unparseable publish date; the loop body of such an item calls
\* CreatePost all the same, with a NULL published_at: with a working database
\* and a new URL the post is stored, and whatever post the step stores has no
\* published timestamp.
C19_UndatedItemInserted ==
    /\ [](\A p \in Procs : \A t \in AllTasks(p) :
            Undated(t) =>
                /\ ~parsePublished(NextItem(t).PubDate, Local).found
                /\ PostParams(t.feed, NextItem(t)).PublishedAt = NullTime
                /\ ~UrlKnown(TrimSpace(NextItem(t).Link)) =>
                        CreatePost(posts, PostParams(t.feed, NextItem(t)), TRUE)
                            = [posts |-> posts \cup {PostParams(t.feed, NextItem(t))},
                               err   |-> FALSE])
    /\ [][\A p \in Procs : \A t \in AllTasks(p) :
            (Undated(t) /\ TaskSteps(p, t)) =>
                \A q \in posts' \ posts :
                    /\ q.Url = TrimSpace(NextItem(t).Link)
                    /\ q.Title = TrimSpace(NextItem(t).Title)
                    /\ ~q.PublishedAt.Valid]_vars

\* C19 witness: the post of an item whose publish date is no date is stored
\* without a published timestamp, next to a post that has one.
C19_Witness ==
    /\ \E q \in posts : /\ q.Url = TrimSpace(Documents[3][1].Link)
                        /\ q.Title = TrimSpace(Documents[3][1].Title)
                        /\ ~q.PublishedAt.Valid
    /\ \E q \in posts : q.PublishedAt.Valid

\* ---------------------------------------------------------------- bookmark
Bookmarked(user, post) == BagIn([UserID |-> user, PostID |-> post], bookmarks)

\* C20: the bookmarks table holds at most one row per user and post; and the
\* insert of a pair the table holds leaves the table as it is and makes
\* handlerBookmark return an error without the success line.
C20_OneBookmarkPerPair ==
    /\ [](\A b \in BagToSet(bookmarks) : CopiesIn(b, bookmarks) = 1)
    /\ [][(cli.pc = "insert" /\ Bookmarked(cli.user, cli.postID) /\ cli' # cli) =>
            /\ bookmarks' = bookmarks
            /\ cli'.pc = "done"
            /\ cli'.err = "error bookmarking post"
            /\ cli'.out = <<>>]_vars

\* C20 witness: the command has returned an error for a pair that was
\* bookmarked by an earlier command under another text of the identity.
C20_Witness ==
    /\ cli.cmd = "bookmark"
    /\ cli.pc = "done"
    /\ cli.err = "error bookmarking post"
    /\ cli.args[1] = <<"+", "1">>
    /\ Bookmarked(cli.user, cli.postID)

\* ---------------------------------------------------------------- the ticker
\* C21: handlerAgg comes to its first send without a tick and with feedChan
\* empty; it comes to a later send only by taking a tick out of ticker.C; a
\* scrapeFeeds goroutine is launched only between a send and the wait for
\* the next tick; and ticker.C never holds more than one tick, whatever the
\* number of intervals handlerAgg spent blocked on the send.
C21_OneLaunchPerTick ==
    /\ [](\A p \in Procs :
            /\ agg[p].ticker <= 1
            /\ (agg[p].pc = "acquire" /\ launched = 0) =>
                    (agg[p].feedChan = 0 /\ agg[p].ticker <= 1))
    /\ [][\A p \in Procs :
            /\ (agg[p].pc = "parse" /\ agg'[p].pc = "acquire") =>
                    agg'[p].ticker = 0
            /\ (agg[p].pc # "acquire" /\ agg'[p].pc = "acquire") =>
                    \/ agg[p].pc = "parse"
                    \/ agg[p].pc = "wait" /\ agg'[p].ticker = agg[p].ticker - 1
            /\ (agg[p].pc # "spawn" /\ agg'[p].pc = "spawn") =>
                    agg[p].pc = "acquire" /\ agg'[p].ticker = agg[p].ticker
            /\ BagCardinality(agg'[p].tasks) > BagCardinality(agg[p].tasks) =>
                    /\ agg[p].pc = "spawn" /\ agg'[p].pc = "wait"
                    /\ BagCardinality(agg'[p].tasks) = BagCardinality(agg[p].tasks) + 1]_vars

\* C21 witness: handlerAgg is blocked on the send with feedChan full and one
\* tick buffered.
C21_Witness ==
    \E p \in Procs :
        /\ agg[p].pc = "acquire"
        /\ agg[p].feedChan = feedChanCap
        /\ agg[p].ticker = 1
        /\ launched = feedChanCap

\* ------------------------------------------------------------- termination
\* C22: the goroutines a process has launched all end, and handlerAgg does
\* not stay at the send on feedChan while it has a launch to make.
C22_TasksEndAndLaunchGoesOn ==
    \A p \in Procs :
        /\ (agg[p].tasks # EmptyBag) ~> (agg[p].tasks = EmptyBag)
        /\ (agg[p].pc = "acquire" /\ launched < launchCap) ~> (agg[p].pc # "acquire")

\* ------------------------------------------------------------ immutability
\* An item with the URL of the stored post q is about to be inserted by a
\* goroutine of another feed, with another title.
Rewrites(t, q) ==
    /\ t.pc = "ingest"
    /\ TrimSpace(NextItem(t).Link) = q.Url
    /\ t.feed # q.FeedID
    /\ TrimSpace(NextItem(t).Title) # q.Title

\* C23: every step leaves every stored post in the table with the identity,
\* the title, the description, the published time, the feed and the
\* creation time it had; and the insert of an item whose URL is stored,
\* from the feed of the stored post or from another, leaves the table as it
\* is.
C23_PostsImmutable ==
    /\ [](\A p \in Procs : \A t \in AllTasks(p) : \A q \in posts :
            (t.pc = "ingest" /\ TrimSpace(NextItem(t).Link) = q.Url) =>
                CreatePost(posts, PostParams(t.feed, NextItem(t)), TRUE).posts = posts)
    /\ [][\A q \in posts : \E r \in posts' :
            /\ r.Url = q.Url
            /\ r.ID = q.ID
            /\ r.Title = q.Title
            /\ r.Description = q.Description
            /\ r.PublishedAt = q.PublishedAt
            /\ r.FeedID = q.FeedID
            /\ r.CreatedAt = q.CreatedAt]_vars

\* C23 witness: a goroutine of one feed is at the item of document 3 whose
\* URL another feed's post holds under another title, at a later time of
\* the database clock.
C23_Witness ==
    \E p \in Procs : \E t \in AllTasks(p) : \E q \in posts :
        /\ Rewrites(t, q)
        /\ t.doc = 3 /\ t.idx = 2
        /\ now > q.CreatedAt

\* ------------------------------------------------------------------ counts
\* C24: when the loop over a document ends, scrapeFeeds returns two counts,
\* the inserted posts and the skipped items, whose sum is the number of
\* items of the document.
C24_CountsReturned ==
    [][\A p \in Procs : \A t \in AllTasks(p) :
        (t.pc = "ingest" /\ t.idx = Len(Documents[t.doc]) /\ TaskSteps(p, t)) =>
            /\ Len(scrapeFeedsResults) = 2
            /\ scrapeFeedsResults[1] + scrapeFeedsResults[2] = Len(Documents[t.doc])]_vars

\* ------------------------------------------------------ page, then filter
\* The number of times q occurs in s.
Occurrences(s, q) == Cardinality({ i \in DOMAIN s : s[i] = q })

\* handlerBrowse has filtered and arranged the page the query returned.
BrowseFiltered == cli.cmd = "browse" /\ cli.pc = "print"

\* C25: the page handlerBrowse works on is a page of the Store for the limit
\* and the offset it passed, in published-or-created descending order; what
\* it prints from holds at most `limit` posts, each as often as the page
\* holds it when there is no feed filter or the post's feed identity is the
\* filter, and not at all otherwise.
C25_FilterAfterPage ==
    BrowseFiltered =>
        /\ cli.page \in GetPostsForUserPaginated(posts, follows, cli.user,
                            Int32(cli.limit), Int32(cli.offset)).pages
        /\ \A i, j \in DOMAIN cli.page :
                i < j => PublishedOrCreated(cli.page[i]) >= PublishedOrCreated(cli.page[j])
        /\ Len(cli.posts) <= cli.limit
        /\ \A q \in posts :
                Occurrences(cli.posts, q) =
                    IF cli.feedFilter = <<>> \/ Itoa(q.FeedID) = cli.feedFilter
                    THEN Occurrences(cli.page, q)
                    ELSE 0

\* C25 witness: with a feed filter the result holds a post of the feed, the
\* page held a post of another feed, and a post of the filter's feed that
\* the user can see is outside the page.
C25_Witness ==
    /\ BrowseFiltered
    /\ cli.feedFilter # <<>>
    /\ Len(cli.posts) >= 1
    /\ Len(cli.posts) < Len(cli.page)
    /\ \E q \in PostsOfUser(posts, follows, cli.user) :
            /\ Itoa(q.FeedID) = cli.feedFilter
            /\ Occurrences(cli.page, q) = 0

\* ------------------------------------------------------------- nulls first
\* C26: while a registered feed has never been fetched, the feed a goroutine
\* selects is a never-fetched one; a fetched feed is selected only when every
\* registered feed has been fetched, and then none has an older
\* last_fetched_at.
C26_NeverFetchedFirst ==
    [][\A f \in Registered :
        Selected(f) =>
            IF \E g \in Registered : lastFetched[g] = NULL
            THEN lastFetched[f] = NULL
            ELSE \A g \in Registered : lastFetched[f] <= lastFetched[g]]_vars

\* C26 witness: a goroutine has selected the never-fetched feed while the
\* other registered feed, selected before, has been fetched.
C26_Witness ==
    \E f, g \in Registered : \E p \in Procs :
        /\ lastFetched[f] = NULL
        /\ lastFetched[g] # NULL
        /\ selCount[g] >= 1
        /\ BagIn(Task("mark", f, NoDoc, 0), agg[p].tasks)

\* ---------------------------------------------------------------- the slots
\* The goroutines of process p for which scrapeFeeds has returned.
ReturnedTasks(p) == { t \in AllTasks(p) : t.pc \in {"release", "failed"} }

\* C27: feedChan holds one value per goroutine launched and not ended, and
\* one more between the send and the go statement; it never holds more than
\* five.  A goroutine ends only after scrapeFeeds has returned, by a step
\* that takes exactly one value out of feedChan, and nothing else takes a
\* value out of it while the process lives.
C27_SlotsMatchTasks ==
    /\ [](\A p \in Procs :
            /\ agg[p].feedChan =
                    BagCardinality(agg[p].tasks) + (IF agg[p].pc = "spawn" THEN 1 ELSE 0)
            /\ agg[p].feedChan <= 5)
    /\ [][\A p \in Procs :
            agg'[p].pc = agg[p].pc =>
                /\ BagCardinality(agg'[p].tasks) < BagCardinality(agg[p].tasks) =>
                        \E t \in ReturnedTasks(p) :
                            /\ agg'[p].tasks = agg[p].tasks (-) One(t)
                            /\ agg'[p].feedChan = agg[p].feedChan - 1
                /\ agg'[p].feedChan < agg[p].feedChan =>
                        BagCardinality(agg'[p].tasks) = BagCardinality(agg[p].tasks) - 1]_vars

\* C27 witness: every goroutine the process launched has ended, one of them
\* after it stored a post, and feedChan is empty.
C27_Witness ==
    \E p \in Procs :
        /\ Running(p)
        /\ launched = launchCap
        /\ agg[p].pc # "spawn"
        /\ agg[p].tasks = EmptyBag
        /\ agg[p].feedChan = 0
        /\ posts # {}

====
